---- MODULE Spec2Model ----
(***************************************************************************)
(* Submission-judging pipeline of ticker_raiser: Intake                    *)
(* (SubmissionService.create_and_queue_submission), the Redis work queue   *)
(* "submissions_queue", the Dispatcher (judge_worker.worker_loop), the     *)
(* Orchestrator (judge_submission), the Sandbox Runner (run_docker_judge)  *)
(* and the Lifecycle Manager (cleanup_docker_container,                    *)
(* cleanup_orphaned_containers).                                           *)
(*                                                                         *)
(* Strings are sequences of one-character strings (stdout, expected        *)
(* output) or of tokens (stderr).  A database commit is atomic: it either  *)
(* takes effect or raises and leaves the row as it was.                    *)
(***************************************************************************)
EXTENDS Integers, Sequences, FiniteSets, TLC

\* ------------------------------------------------------------------ bounds
NumDispatchers == 2
MaxSubmissions == 2
MaxTestCases == 2
MaxTime == 2
MaxEdits == 1
MaxLen == 3
MaxCases == 2

\* ------------------------------------------------------- program constants
max_retries == 3
MAX_DOCKER_TIMEOUT == 30
CLEANUP_RETRY_DELAY == 1
\* ProblemCreate.time_limit_ms: Field(1000, ge=100, le=60000)
MinTimeLimit == 100
MaxTimeLimit == 60000

Dispatchers == 1..NumDispatchers
SubmissionIds == 1..MaxSubmissions

\* Dispatchers that share one process id
SharedPid(d) == 100

\* os.getpid() of each Dispatcher: one worker thread per process (main.py
\* lifespan, or judge_worker run as a script), all on one host
Pid(d) == 100 + d

\* the problem that exists in storage, and the ids a request may name
ExistingProblem == 1
ProblemIds == {1, 2}

Whitespace == {" ", "\n"}
ExpectedOutputs == {<<"5">>}
Stdouts == {<<"5">>, <<"5", "\n">>, <<"6">>, <<>>}
Signatures ==
  <<"SyntaxError", "NameError", "TypeError", "ValueError", "IndexError",
    "ZeroDivisionError", "MemoryError">>
Stderrs ==
  {<<>>, <<" ">>, <<"x">>, <<"ZeroDivisionError">>, <<"Timed Out">>,
   <<"NameError", "timed out">>}

Terminal == {"ACCEPTED", "WRONG_ANSWER", "RUNTIME_ERROR", "TIME_LIMIT_EXCEEDED"}
None == "None"

VARIABLES
  now,          \* the latest reading of the clock, int(time.time() * 1000)
  test_cases,   \* expected outputs of the problem's test cases, stored order
  edits,        \* test cases created or deleted through the problem API so far
  submissions,  \* rows of the submissions table, indexed by id
  unpushed,     \* ids whose row is committed and whose LPUSH is still to come
  queue,        \* the Redis list submissions_queue, head first
  containers,   \* names of the containers the runtime holds
  worker,       \* per Dispatcher: position and locals of worker_loop
  audit,        \* per submission: what was done for it (observation only)
  evaluation    \* the function that is called on its own, if any

vars == <<now, test_cases, edits, submissions, unpushed, queue, containers, worker,
          audit, evaluation>>

\* ------------------------------------------------------------ str helpers
RECURSIVE LStrip(_)
LStrip(s) ==
  IF s # <<>> /\ Head(s) \in Whitespace THEN LStrip(Tail(s)) ELSE s

RECURSIVE RStrip(_)
RStrip(s) ==
  IF s # <<>> /\ s[Len(s)] \in Whitespace
  THEN RStrip(SubSeq(s, 1, Len(s) - 1)) ELSE s

Strip(s) == LStrip(RStrip(s))

Lower(tok) == IF tok = "Timed Out" THEN "timed out" ELSE tok

Contains(text, sig) == \E k \in 1..Len(text) : text[k] = sig

ContainsLower(text, sig) == \E k \in 1..Len(text) : Lower(text[k]) = sig

\* the value None where the code expects a str
NoneStr == <<None>>

\* truth value of an str-or-None in an if
Truthy(e) == e # NoneStr /\ e # <<>>


\* ------------------------------------------------- run_docker_judge results
TimeoutResult ==
  [passed |-> FALSE, error |-> <<"Time limit exceeded">>,
   error_type |-> "TIMEOUT", timed_out |-> TRUE]

SystemErrorResult ==
  [passed |-> FALSE, error |-> <<"System error">>,
   error_type |-> "SYSTEM_ERROR", timed_out |-> FALSE]

RECURSIVE FirstSignature(_, _)
FirstSignature(stderr, k) ==
  IF k > Len(Signatures) THEN None
  ELSE IF Contains(stderr, Signatures[k]) THEN Signatures[k]
  ELSE FirstSignature(stderr, k + 1)

ErrorTypeOf(sig) ==
  CASE sig = "SyntaxError" -> "SYNTAX_ERROR"
    [] sig = "NameError" -> "NAME_ERROR"
    [] sig = "TypeError" -> "TYPE_ERROR"
    [] sig = "ValueError" -> "VALUE_ERROR"
    [] sig = "IndexError" -> "INDEX_ERROR"
    [] sig = "ZeroDivisionError" -> "ZERO_DIVISION"
    [] sig = "MemoryError" -> "MEMORY_LIMIT"
    [] OTHER -> "RUNTIME"

\* proc.returncode != 0
NonZeroExitResult(stderr) ==
  LET sig == FirstSignature(stderr, 1) IN
  IF sig = None /\ ContainsLower(stderr, "timed out")
  THEN TimeoutResult
  ELSE [passed |-> FALSE, error |-> Strip(stderr),
        error_type |-> ErrorTypeOf(sig), timed_out |-> FALSE]

\* proc.returncode == 0: compare output
CompareResult(stdout, expected_output) ==
  LET passed == Strip(stdout) = Strip(expected_output) IN
  [passed |-> passed, error |-> NoneStr,
   error_type |-> IF passed THEN None ELSE "WRONG_ANSWER",
   timed_out |-> FALSE]

\* --------------------------------------------- judge_submission, the loop
\* the branch of the if/elif chain a result takes
Classify(result) ==
  IF result.passed THEN "PASS"
  ELSE IF result.timed_out THEN "TIME_LIMIT_EXCEEDED"
  ELSE IF Truthy(result.error) THEN "RUNTIME_ERROR"
  ELSE "WRONG_ANSWER"

\* TRUE when the branch ends the for loop
Breaks(verdict) == verdict \in {"TIME_LIMIT_EXCEEDED", "RUNTIME_ERROR"}

NextFinalStatus(final_status, verdict) ==
  CASE verdict = "PASS" -> final_status
    [] verdict = "TIME_LIMIT_EXCEEDED" -> "TIME_LIMIT_EXCEEDED"
    [] verdict = "RUNTIME_ERROR" -> "RUNTIME_ERROR"
    [] OTHER -> IF final_status = "ACCEPTED" THEN "WRONG_ANSWER"
                ELSE final_status

\* locals of judge_submission after one iteration of the for loop
AfterResult(w, result) ==
  LET verdict == Classify(result)
      more == ~Breaks(verdict) /\ w.i < Len(w.test_cases)
  IN [w EXCEPT
        !.passed_count = IF verdict = "PASS" THEN @ + 1 ELSE @,
        !.final_status = NextFinalStatus(@, verdict),
        !.i = IF more THEN @ + 1 ELSE @,
        !.pc = IF more THEN "popen" ELSE "persist"]

\* what the Dispatcher's trail keeps of a run: how it ended, the branch taken,
\* and the first test case that did not pass
Logged(w, cause, result) ==
  LET first == w.first_fail = 0 /\ Classify(result) # "PASS" IN
  [w EXCEPT !.cause = cause,
            !.first_fail = IF first THEN w.i ELSE @,
            !.first_verdict = IF first THEN Classify(result) ELSE @]

\* ------------------------------------------------------- storage and queue
\* submissions_check left out of the table
NoConstraint(test_cases_passed, total_test_cases) == TRUE

\* CheckConstraint submissions_check
ConstraintOk(test_cases_passed, total_test_cases) ==
  test_cases_passed >= 0 /\ test_cases_passed <= total_test_cases

\* a publish that is retried after it went through
LPushTwice(q, id) == <<id, id>> \o q

\* a pop that hands out the head and drops the tail
PopHeadValue(q) == q[1]

\* a push at the end the Dispatchers pop from
RPush(q, id) == q \o <<id>>

\* LPUSH submissions_queue id
LPush(q, id) == <<id>> \o q

\* BRPOP submissions_queue: the entry handed out, and what stays
BRPopValue(q) == q[Len(q)]

\* a read of the tail that leaves it on the list
PeekRest(q) == q

BRPopRest(q) == SubSeq(q, 1, Len(q) - 1)

\* a row inserted with the count of a problem that has no test case
create_submission_uncounted(problem_id, total_test_cases) ==
  [problem_id |-> problem_id, status |-> "PENDING", test_cases_passed |-> 0,
   total_test_cases |-> 0]

\* a row inserted as already judged
create_submission_judged(problem_id, total_test_cases) ==
  [problem_id |-> problem_id, status |-> "ACCEPTED", test_cases_passed |-> 0,
   total_test_cases |-> total_test_cases]

\* crud create_submission: the row it commits
create_submission(problem_id, total_test_cases) ==
  [problem_id |-> problem_id, status |-> "PENDING", test_cases_passed |-> 0,
   total_test_cases |-> total_test_cases]

\* ------------------------------------------------------- container runtime
ContainerName(ms, pid) == <<ms, pid>>

\* docker run without --rm
NoAutoRemove(cs, name) == cs

\* docker run --rm: the runtime removes the container when its command exits
AutoRemove(cs, name) == cs \ {name}

\* cleanup_docker_container: failed attempts before one succeeds, if any
CleanupSucceeds(failed) == failed < max_retries

AfterCleanup(cs, name, failed) ==
  IF CleanupSucceeds(failed) THEN cs \ {name} ELSE cs

\* each failed attempt sleeps CLEANUP_RETRY_DELAY seconds
TimeAfterCleanup(t, failed) == IF failed > 0 THEN t + 1 ELSE t

\* ------------------------------------------- app.utils.submission_verdict
\* ComparisonStrategy
Strategies == {"exact", "trim", "normalized", "token"}

\* the characters of an output, and the outputs of at most MaxLen characters
Chars == {"4", "2", " ", "\n"}
Strings == UNION {[1..n -> Chars] : n \in 0..MaxLen}

\* index of the first character of s that is in cs, Len(s) + 1 when none is
Find(s, cs) ==
  IF \E k \in 1..Len(s) : s[k] \in cs
  THEN CHOOSE k \in 1..Len(s) :
         s[k] \in cs /\ \A j \in 1..(k - 1) : s[j] \notin cs
  ELSE Len(s) + 1

\* a split that breaks at blanks only
RECURSIVE SplitAtBlanks(_)
SplitAtBlanks(s) ==
  LET n == Find(s, {" "})
  IN IF s = <<>> THEN <<>>
     ELSE IF n = 1 THEN SplitAtBlanks(Tail(s))
     ELSE <<SubSeq(s, 1, n - 1)>> \o SplitAtBlanks(SubSeq(s, n, Len(s)))

\* str.split(): runs of whitespace separate, no empty token
RECURSIVE Split(_)
Split(s) ==
  LET t == LStrip(s)
      n == Find(t, Whitespace)
  IN IF t = <<>> THEN <<>>
     ELSE <<SubSeq(t, 1, n - 1)>> \o Split(SubSeq(t, n, Len(t)))

\* str.split('\n'): every newline separates, empty lines are kept
RECURSIVE SplitLines(_)
SplitLines(s) ==
  LET n == Find(s, {"\n"})
  IN IF n > Len(s) THEN <<s>>
     ELSE <<SubSeq(s, 1, n - 1)>> \o SplitLines(SubSeq(s, n + 1, Len(s)))

\* lines split without stripping the ends first
UnstrippedLines(s) ==
  LET lines == SplitLines(s) IN
  [k \in 1..Len(lines) |-> Split(lines[k])]

\* [line.split() for line in s.strip().split('\n')]
NormalizedLines(s) ==
  LET lines == SplitLines(Strip(s)) IN
  [k \in 1..Len(lines) |-> Split(lines[k])]

compare_with_strategy(actual_output, expected_output, strategy) ==
  CASE strategy = "exact" -> actual_output = expected_output
    [] strategy = "trim" -> RStrip(actual_output) = RStrip(expected_output)
    [] strategy = "normalized" ->
         NormalizedLines(actual_output) = NormalizedLines(expected_output)
    [] strategy = "token" -> Split(actual_output) = Split(expected_output)
    [] OTHER -> FALSE

\* an evaluation that looks at the timeout before the runtime error
evaluate_submission_timeout_first(actual_output, expected_output, strategy, timeout_occurred, runtime_error, error_message) ==
  IF timeout_occurred
  THEN [verdict |-> "TIME_LIMIT_EXCEEDED", message |-> <<"Time limit exceeded">>]
  ELSE IF runtime_error
  THEN [verdict |-> "RUNTIME_ERROR", message |-> <<"Runtime error occurred">>]
  ELSE IF compare_with_strategy(actual_output, expected_output, strategy)
  THEN [verdict |-> "ACCEPTED", message |-> <<"Output matches expected">>]
  ELSE [verdict |-> "WRONG_ANSWER",
        message |-> <<"Expected:", expected_output, "Got:", actual_output>>]

evaluate_submission(actual_output, expected_output, strategy, timeout_occurred, runtime_error, error_message) ==
  IF runtime_error
  THEN [verdict |-> "RUNTIME_ERROR",
        message |-> IF Truthy(error_message) THEN error_message
                    ELSE <<"Runtime error occurred">>]
  ELSE IF timeout_occurred
  THEN [verdict |-> "TIME_LIMIT_EXCEEDED", message |-> <<"Time limit exceeded">>]
  ELSE IF compare_with_strategy(actual_output, expected_output, strategy)
  THEN [verdict |-> "ACCEPTED", message |-> <<"Output matches expected">>]
  ELSE [verdict |-> "WRONG_ANSWER",
        message |-> <<"Expected:", expected_output, "Got:", actual_output>>]

\* an optional list argument: None, or the list
NoList == [given |-> FALSE, list |-> <<>>]
Given(list) == [given |-> TRUE, list |-> list]

\* `xs or [False] * n`
OrFalses(xs, n) ==
  IF xs.given /\ xs.list # <<>> THEN xs.list ELSE [k \in 1..n |-> FALSE]

Min(S) == CHOOSE m \in S : \A x \in S : m <= x

\* the for loop of batch_evaluate_submission over zip(...), from case i on
RECURSIVE BatchLoop(_, _, _, _, _, _, _)
BatchLoop(i, acc, actual_outputs, expected_outputs, strategy, timeouts, runtime_errors) ==
  IF i > Min({Len(actual_outputs), Len(expected_outputs), Len(timeouts),
              Len(runtime_errors)})
  THEN acc
  ELSE LET r == evaluate_submission(actual_outputs[i], expected_outputs[i],
                                    strategy, timeouts[i], runtime_errors[i],
                                    NoneStr)
           next ==
             [details |-> Append(acc.details,
                                 [test_case |-> i, verdict |-> r.verdict,
                                  message |-> r.message]),
              passed |-> IF r.verdict = "ACCEPTED" THEN acc.passed + 1
                         ELSE acc.passed,
              first_failure |->
                IF r.verdict # "ACCEPTED" /\ acc.first_failure = None
                THEN r.verdict ELSE acc.first_failure]
       IN BatchLoop(i + 1, next, actual_outputs, expected_outputs, strategy,
                    timeouts, runtime_errors)

\* round(passed / n * 100, 2), in hundredths of a percent
Percentage(passed, n) == (2 * 10000 * passed + n) \div (2 * n)

\* what batch_evaluate_submission returns, or the exception it raises
batch_evaluate_submission(actual_outputs, expected_outputs, strategy, timeouts, runtime_errors) ==
  LET n == Len(actual_outputs)
      acc == BatchLoop(1, [details |-> <<>>, passed |-> 0,
                           first_failure |-> None],
                       actual_outputs, expected_outputs, strategy,
                       OrFalses(timeouts, n), OrFalses(runtime_errors, n))
      overall_verdict ==
        IF acc.first_failure # None THEN acc.first_failure
        ELSE IF acc.passed = n THEN "ACCEPTED"
        ELSE "WRONG_ANSWER"
  IN IF n = 0
     THEN [raised |-> "ZeroDivisionError"]
     ELSE [raised |-> None, passed |-> acc.passed, total |-> n,
           verdict |-> overall_verdict,
           percentage |-> Percentage(acc.passed, n),
           details |-> acc.details]

\* -------------------------------------------------------------------- Init
IdleWorker ==
  [pc |-> "ping", submission_id |-> 0, test_cases |-> <<>>, i |-> 0,
   passed_count |-> 0, final_status |-> None, container_name |-> <<>>,
   proc |-> "none", cleaned |-> None, cause |-> None,
   first_fail |-> 0, first_verdict |-> None, update_calls |-> 0]

NoAudit ==
  [claims |-> 0, writes |-> 0]

\* no function is being called on its own
NoEvaluation == [op |-> None, args |-> <<>>, returned |-> FALSE, result |-> None]

\* nothing submitted, no Dispatcher started yet
EmptyPipeline ==
  /\ now = 1
  /\ edits = 0
  /\ submissions = <<>>
  /\ unpushed = {}
  /\ queue = <<>>
  /\ containers = {}
  /\ worker = [d \in Dispatchers |-> IdleWorker]
  /\ audit = [s \in SubmissionIds |-> NoAudit]

PipelineInit ==
  /\ EmptyPipeline
  /\ test_cases \in UNION {[1..n -> ExpectedOutputs] : n \in 0..MaxTestCases}

Init == PipelineInit /\ evaluation = NoEvaluation


\* ------------------------------------------------------------ environment
\* TestCaseService.create_test_case
CreateTestCase ==
  /\ Len(test_cases) < MaxTestCases
  /\ edits < MaxEdits
  /\ edits' = edits + 1
  /\ \E e \in ExpectedOutputs : test_cases' = Append(test_cases, e)
  /\ UNCHANGED <<now, submissions, unpushed, queue, containers,
                 worker, audit, evaluation>>

\* TestCaseService.delete_test_case
DeleteTestCase ==
  /\ edits < MaxEdits
  /\ edits' = edits + 1
  /\ \E k \in 1..Len(test_cases) :
       test_cases' = SubSeq(test_cases, 1, k - 1)
                       \o SubSeq(test_cases, k + 1, Len(test_cases))
  /\ UNCHANGED <<now, submissions, unpushed, queue, containers,
                 worker, audit, evaluation>>

\* ------------------------------------------------------------------ Intake
\* create_and_queue_submission up to the commit of the new row
CreateSubmission ==
  \E problem_id \in ProblemIds :
    /\ UNCHANGED <<now, test_cases, edits, queue, containers, worker, audit,
                   evaluation>>
    /\ IF problem_id # ExistingProblem
       THEN UNCHANGED <<submissions, unpushed>>
       ELSE IF Len(test_cases) = 0
       THEN UNCHANGED <<submissions, unpushed>>
       ELSE /\ Len(submissions) < MaxSubmissions
            /\ submissions' =
                 Append(submissions,
                        create_submission(problem_id, Len(test_cases)))
            /\ unpushed' = unpushed \cup {Len(submissions) + 1}

\* create_and_queue_submission from enqueue_submission on
EnqueueSubmission ==
  \E id \in unpushed, pushed \in BOOLEAN :
    /\ unpushed' = unpushed \ {id}
    /\ queue' = IF pushed THEN LPush(queue, id) ELSE queue
    /\ UNCHANGED <<now, test_cases, edits, submissions, containers, worker,
                   audit, evaluation>>


\* -------------------------------------------------- Dispatcher: worker_loop
Goto(d, label) == worker' = [worker EXCEPT ![d].pc = label]

\* a Dispatcher that goes to the queue right after the runtime check
AfterDockerInfoNoSweep(available) == IF available THEN "brpop" ELSE "exited"

\* where worker_loop goes after docker info
AfterDockerInfo(available) == IF available THEN "sweep" ELSE "exited"

\* redis_client.ping(); sys.exit(1) when it raises
Ping(d) ==
  /\ worker[d].pc = "ping"
  /\ \E reachable \in BOOLEAN :
       Goto(d, IF reachable THEN "docker_info" ELSE "exited")
  /\ UNCHANGED <<now, test_cases, edits, submissions, unpushed, queue,
                 containers, audit, evaluation>>

\* docker info; sys.exit(1) when it fails
DockerInfo(d) ==
  /\ worker[d].pc = "docker_info"
  /\ \E available \in BOOLEAN : Goto(d, AfterDockerInfo(available))
  /\ UNCHANGED <<now, test_cases, edits, submissions, unpushed, queue,
                 containers, audit, evaluation>>

\* a sweep that lists and removes nothing
SweptNothing(cs, listed, failed) == cs

\* the containers left by cleanup_orphaned_containers: all of them when
\* docker ps failed, else those whose cleanup_docker_container returned False
Swept(cs, listed, failed) == IF listed THEN cs \cap failed ELSE cs

\* cleanup_orphaned_containers: docker ps -a --filter name=judge_ lists every
\* container of the runtime whose name holds judge_
CleanupOrphanedContainers(d) ==
  /\ worker[d].pc = "sweep"
  /\ \E listed \in BOOLEAN, failed \in SUBSET containers :
       containers' = Swept(containers, listed, failed)
  /\ Goto(d, "brpop")
  /\ UNCHANGED <<now, test_cases, edits, submissions, unpushed, queue,
                 audit, evaluation>>

\* redis_client.brpop("submissions_queue", timeout=0)
BRPop(d) ==
  /\ worker[d].pc = "brpop"
  /\ queue # <<>>
  /\ LET id == BRPopValue(queue) IN
       /\ queue' = BRPopRest(queue)
       /\ worker' = [worker EXCEPT ![d].pc = "load", ![d].submission_id = id]
       /\ audit' = [audit EXCEPT ![id].claims = @ + 1]
  /\ UNCHANGED <<now, test_cases, edits, submissions, unpushed,
                 containers, evaluation>>

\* ---------------------------------------------- Orchestrator: judge_submission
\* a judge_submission that finds work for every id
AlwaysSomethingToJudge(submission_id, rows, stored) == FALSE

\* the early returns: no such submission, or no test case for its problem
\* (the problem of a submission exists: delete_problem refuses otherwise)
NothingToJudge(submission_id, rows, stored) ==
  submission_id > Len(rows) \/ Len(stored) = 0

\* get_test_cases_by_problem: a query without ORDER BY, whose rows come in
\* whatever order storage yields them
get_test_cases_by_problem(stored) ==
  {[k \in 1..Len(stored) |-> stored[p[k]]] :
     p \in Permutations(1..Len(stored))}

\* the three loads and their early returns; a failing query raises
Load(d) ==
  /\ worker[d].pc = "load"
  /\ \E raised \in BOOLEAN :
       IF raised
       THEN Goto(d, "fallback")
       ELSE IF NothingToJudge(worker[d].submission_id, submissions, test_cases)
       THEN worker' = [worker EXCEPT ![d] = [IdleWorker EXCEPT !.pc = "brpop"]]
       ELSE \E rows \in get_test_cases_by_problem(test_cases) :
              worker' = [worker EXCEPT
                ![d].pc = "popen",
                ![d].test_cases = rows,
                ![d].i = 1,
                ![d].passed_count = 0,
                ![d].final_status = "ACCEPTED"]
  /\ UNCHANGED <<now, test_cases, edits, submissions, unpushed, queue, containers,
                 audit, evaluation>>

\* run_docker_judge up to Popen: the temp file is written and docker run is
\* started under the name judge_<ms>_<pid>, ms being the clock, which has
\* advanced by any amount since it was last read; a failure before the
\* container exists yields SYSTEM_ERROR
Popen(d) ==
  /\ worker[d].pc = "popen"
  /\ LET w == [worker[d] EXCEPT !.cleaned = None, !.container_name = <<>>,
                                !.proc = "none"]
     IN \E raised \in BOOLEAN :
          IF raised
          THEN /\ worker' = [worker EXCEPT
                    ![d] = AfterResult(
                             Logged(w, "no_container", SystemErrorResult),
                             SystemErrorResult)]
               /\ UNCHANGED <<now, containers>>
          ELSE \E ms \in now..MaxTime :
                 LET name == ContainerName(ms, Pid(d)) IN
                   /\ now' = ms
                   /\ worker' = [worker EXCEPT
                        ![d] = [w EXCEPT !.pc = "communicate",
                                         !.container_name = name,
                                         !.proc = "running",
                                         !.cause = None]]
                   /\ containers' = containers \cup {name}
  /\ UNCHANGED <<test_cases, edits, submissions, unpushed, queue, audit,
                 evaluation>>

\* a runner that reports a failed cleanup as the result
KilledResultChecked(cause, cleaned) ==
  IF ~cleaned THEN SystemErrorResult
  ELSE IF cause = "watchdog" THEN TimeoutResult ELSE SystemErrorResult

\* the result returned after communicate() raised; the value returned by
\* cleanup_docker_container is dropped
KilledResult(cause, cleaned) ==
  IF cause = "watchdog" THEN TimeoutResult ELSE SystemErrorResult

\* what communicate() can observe of a container that still exists
Observations ==
  {[cause |-> "exit0", out |-> o] : o \in Stdouts}
    \cup {[cause |-> c, out |-> e] :
            c \in {"fault", "inner_timeout"}, e \in Stderrs}
    \cup {[cause |-> c, out |-> <<>>] : c \in {"watchdog", "exception"}}

\* run_docker_judge from communicate() to its return, and the branch of the
\* for loop of judge_submission that takes the result.
\*   exit0          the command exits 0 within docker_timeout
\*   fault          the program exits non-zero by itself
\*   inner_timeout  `timeout` stops the program: exit status 124, and nothing
\*                  but what the program wrote on stderr
\*   watchdog       communicate() raises TimeoutExpired; proc.kill()
\*   exception      communicate() raises anything else; the finally block
\*                  kills the process
\*   removed        the container was stopped and removed from outside:
\*                  docker run exits non-zero
Communicate(d) ==
  /\ worker[d].pc = "communicate"
  /\ LET w == worker[d]
         name == w.container_name
         expected_output == w.test_cases[w.i]
     IN IF name \notin containers
        THEN \E stderr \in Stderrs :
               LET result == NonZeroExitResult(stderr) IN
                 /\ worker' = [worker EXCEPT
                      ![d] = AfterResult(
                               Logged([w EXCEPT !.proc = "exited"],
                                      "removed", result),
                               result)]
                 /\ UNCHANGED <<now, containers>>
        ELSE \E obs \in Observations :
               IF obs.cause \in {"watchdog", "exception"}
               THEN \E failed \in 0..max_retries :
                      LET result ==
                            KilledResult(obs.cause, CleanupSucceeds(failed))
                      IN /\ TimeAfterCleanup(now, failed) <= MaxTime
                         /\ now' = TimeAfterCleanup(now, failed)
                         /\ containers' = AfterCleanup(containers, name, failed)
                         /\ worker' = [worker EXCEPT
                              ![d] = AfterResult(
                                       Logged([w EXCEPT
                                                 !.proc = "killed",
                                                 !.cleaned =
                                                   IF CleanupSucceeds(failed)
                                                   THEN "True" ELSE "False"],
                                              obs.cause, result),
                                       result)]
               ELSE LET result == IF obs.cause = "exit0"
                                  THEN CompareResult(obs.out, expected_output)
                                  ELSE NonZeroExitResult(obs.out)
                    IN /\ containers' = AutoRemove(containers, name)
                       /\ worker' = [worker EXCEPT
                            ![d] = AfterResult(
                                     Logged([w EXCEPT !.proc = "exited"],
                                            obs.cause, result),
                                     result)]
                       /\ UNCHANGED now
  /\ UNCHANGED <<test_cases, edits, submissions, unpushed, queue, audit,
                 evaluation>>

\* crud update_submission_status: the row after a commit that takes effect
Updated(row, status, test_cases_passed) ==
  [row EXCEPT !.status = status, !.test_cases_passed = test_cases_passed]

\* judge_submission returns to worker_loop, which blocks on the queue again
Returned == [IdleWorker EXCEPT !.pc = "brpop"]

\* update_submission_after_judge(final_status, passed_count) after the loop;
\* the commit raises when storage fails or submissions_check rejects the row
Persist(d) ==
  /\ worker[d].pc = "persist"
  /\ LET w == worker[d]
         id == w.submission_id
     IN \E failure \in BOOLEAN :
          IF failure \/ ~ConstraintOk(w.passed_count,
                                      submissions[id].total_test_cases)
          THEN /\ worker' = [worker EXCEPT ![d].pc = "fallback",
                                            ![d].update_calls = @ + 1]
               /\ UNCHANGED <<submissions, audit>>
          ELSE /\ submissions' = [submissions EXCEPT
                    ![id] = Updated(@, w.final_status, w.passed_count)]
               /\ worker' = [worker EXCEPT ![d] = Returned]
               /\ audit' = [audit EXCEPT ![id].writes = @ + 1]
  /\ UNCHANGED <<now, test_cases, edits, unpushed, queue, containers,
                 evaluation>>

\* the except branch: update_submission_after_judge("RUNTIME_ERROR", 0), whose
\* own exception is logged and dropped
Fallback(d) ==
  /\ worker[d].pc = "fallback"
  /\ LET id == worker[d].submission_id
     IN \E failure \in BOOLEAN :
          /\ worker' = [worker EXCEPT ![d] = Returned]
          /\ IF failure
             THEN UNCHANGED <<submissions, audit>>
             ELSE /\ submissions' = [submissions EXCEPT
                       ![id] = Updated(@, "RUNTIME_ERROR", 0)]
                  /\ audit' = [audit EXCEPT ![id].writes = @ + 1]
  /\ UNCHANGED <<now, test_cases, edits, unpushed, queue, containers,
                 evaluation>>

\* ------------------------------- calls of app.utils.submission_verdict
pipeline_vars ==
  <<now, test_cases, edits, submissions, unpushed, queue, containers, worker,
    audit>>

\* outputs and expected outputs handed to the evaluators
SampleOutputs ==
  {<<"4", "2">>, <<"4", "2", "\n">>, <<"4", " ", "2">>, <<"2">>, <<>>}

ErrorMessages == {NoneStr, <<>>, <<"boom">>}

\* lists of n elements of S
Lists(S, n) == [1..n -> S]

\* an optional list of n flags: None or the list
OptionalFlags(n) == {NoList} \cup {Given(l) : l \in Lists(BOOLEAN, n)}

\* a call that has not returned yet
Call(op, args) == [op |-> op, args |-> args, returned |-> FALSE, result |-> None]

Return(result) == [evaluation EXCEPT !.returned = TRUE, !.result = result]

CompareCalls ==
  {Call("compare_with_strategy",
        [actual_output |-> a, expected_output |-> e, strategy |-> s]) :
     a \in Strings, e \in Strings, s \in Strategies}

EvaluateCalls ==
  {Call("evaluate_submission",
        [actual_output |-> a, expected_output |-> e, strategy |-> s,
         timeout_occurred |-> f[1], runtime_error |-> f[2],
         error_message |-> m]) :
     a \in SampleOutputs, e \in SampleOutputs, s \in Strategies,
     f \in BOOLEAN \X BOOLEAN, m \in ErrorMessages}

BatchCalls ==
  UNION {
    {Call("batch_evaluate_submission",
          [actual_outputs |-> a, expected_outputs |-> e, strategy |-> s,
           timeouts |-> f[1], runtime_errors |-> f[2]]) :
       a \in Lists(SampleOutputs, n),
       e \in Lists({<<"4", "2">>, <<"2">>}, n),
       s \in Strategies,
       f \in OptionalFlags(n) \X OptionalFlags(n)} : n \in 0..MaxCases}

CompareWithStrategy ==
  /\ evaluation.op = "compare_with_strategy"
  /\ ~evaluation.returned
  /\ LET args == evaluation.args IN
       evaluation' = Return(compare_with_strategy(args.actual_output,
                                                  args.expected_output,
                                                  args.strategy))
  /\ UNCHANGED pipeline_vars

EvaluateSubmission ==
  /\ evaluation.op = "evaluate_submission"
  /\ ~evaluation.returned
  /\ LET args == evaluation.args IN
       evaluation' = Return(evaluate_submission(args.actual_output,
                                                args.expected_output,
                                                args.strategy,
                                                args.timeout_occurred,
                                                args.runtime_error,
                                                args.error_message))
  /\ UNCHANGED pipeline_vars

BatchEvaluateSubmission ==
  /\ evaluation.op = "batch_evaluate_submission"
  /\ ~evaluation.returned
  /\ LET args == evaluation.args IN
       evaluation' = Return(batch_evaluate_submission(args.actual_outputs,
                                                      args.expected_outputs,
                                                      args.strategy,
                                                      args.timeouts,
                                                      args.runtime_errors))
  /\ UNCHANGED pipeline_vars

\* ---------------------------------------------------------- specification
DispatcherStep(d) ==
  \/ Ping(d)
  \/ DockerInfo(d)
  \/ CleanupOrphanedContainers(d)
  \/ BRPop(d)
  \/ Load(d)
  \/ Popen(d)
  \/ Communicate(d)
  \/ Persist(d)
  \/ Fallback(d)

Next ==
  \/ CreateTestCase
  \/ DeleteTestCase
  \/ CreateSubmission
  \/ EnqueueSubmission
  \/ \E d \in Dispatchers : DispatcherStep(d)

Spec == Init /\ [][Next]_vars

\* the Dispatchers that started keep running, and a request that committed
\* its row goes on to the push
FairSpec ==
  /\ Spec
  /\ \A d \in Dispatchers : WF_vars(DispatcherStep(d))
  /\ WF_vars(EnqueueSubmission)

\* the pipeline for a problem whose two test cases expect different outputs
\* and are not edited any more
OrderInit ==
  /\ EmptyPipeline
  /\ test_cases = << <<"6">>, <<"5">> >>
  /\ evaluation = NoEvaluation

OrderNext ==
  \/ CreateSubmission
  \/ EnqueueSubmission
  \/ \E d \in Dispatchers : DispatcherStep(d)

OrderSpec == OrderInit /\ [][OrderNext]_vars

\* ------------------------------------- run_docker_judge and its helpers
\* int(time_limit_sec)
IntSeconds(time_limit_ms) == time_limit_ms \div 1000

\* the timeout of communicate(), the outer watchdog
docker_timeout(time_limit_ms) ==
  Min({IntSeconds(time_limit_ms) + 5, MAX_DOCKER_TIMEOUT})

\* the argument of `timeout` in the container command
inner_timeout(time_limit_ms) == IntSeconds(time_limit_ms) + 1

\* what one attempt of cleanup_docker_container meets: docker rm exits 0, it
\* reports "No such container", it fails otherwise, or a call raises
AttemptOutcomes == {"removed", "gone", "failed", "raised"}

\* a cleanup that takes "No such container" for a failure
RECURSIVE CleanupLoopStrict(_, _, _)
CleanupLoopStrict(attempt, outcomes, slept) ==
  IF attempt > max_retries
  THEN [returned |-> FALSE, attempts |-> max_retries, slept |-> slept]
  ELSE IF outcomes[attempt] = "removed"
  THEN [returned |-> TRUE, attempts |-> attempt, slept |-> slept]
  ELSE CleanupLoopStrict(attempt + 1, outcomes, slept + CLEANUP_RETRY_DELAY)

\* the for loop of cleanup_docker_container from one attempt on
RECURSIVE CleanupLoop(_, _, _)
CleanupLoop(attempt, outcomes, slept) ==
  IF attempt > max_retries
  THEN [returned |-> FALSE, attempts |-> max_retries, slept |-> slept]
  ELSE IF outcomes[attempt] \in {"removed", "gone"}
  THEN [returned |-> TRUE, attempts |-> attempt, slept |-> slept]
  ELSE CleanupLoop(attempt + 1, outcomes, slept + CLEANUP_RETRY_DELAY)

cleanup_docker_container(outcomes) == CleanupLoop(1, outcomes, 0)

\* how a run ends: exit status 0, another exit status, or TimeoutExpired
RunEnds == {"exit0", "nonzero", "watchdog"}

\* what a program may print where <<"5">> is expected
RunStdouts == {<<"5">>, <<"5", "\n">>, <<" ", "5">>, <<"6">>, <<>>}

\* the result run_docker_judge returns for a run that ended
run_docker_judge(ends, stdout, stderr, expected_output) ==
  CASE ends = "watchdog" -> TimeoutResult
    [] ends = "nonzero" -> NonZeroExitResult(stderr)
    [] OTHER -> CompareResult(stdout, expected_output)

TimeoutCalls ==
  {Call("timeouts", [time_limit_ms |-> t]) : t \in MinTimeLimit..MaxTimeLimit}

CleanupCalls ==
  {Call("cleanup_docker_container", [outcomes |-> o]) :
     o \in [1..max_retries -> AttemptOutcomes]}

ClassifyCalls ==
  {Call("classify",
        [ends |-> e, stdout |-> o, stderr |-> s, expected_output |-> x]) :
     e \in RunEnds, o \in RunStdouts, s \in Stderrs, x \in ExpectedOutputs}

\* lines 90-91 and 122 of run_docker_judge
ComputeTimeouts ==
  /\ evaluation.op = "timeouts"
  /\ ~evaluation.returned
  /\ evaluation' =
       Return([inner |-> inner_timeout(evaluation.args.time_limit_ms),
               outer |-> docker_timeout(evaluation.args.time_limit_ms)])
  /\ UNCHANGED pipeline_vars

CleanupDockerContainer ==
  /\ evaluation.op = "cleanup_docker_container"
  /\ ~evaluation.returned
  /\ evaluation' = Return(cleanup_docker_container(evaluation.args.outcomes))
  /\ UNCHANGED pipeline_vars

\* one run of run_docker_judge and the branch of judge_submission it takes
ClassifyRun ==
  /\ evaluation.op = "classify"
  /\ ~evaluation.returned
  /\ LET args == evaluation.args IN
       evaluation' =
         Return(Classify(run_docker_judge(args.ends, args.stdout, args.stderr,
                                          args.expected_output)))
  /\ UNCHANGED pipeline_vars

RunnerInit ==
  /\ EmptyPipeline
  /\ test_cases = <<>>
  /\ evaluation \in TimeoutCalls \cup CleanupCalls \cup ClassifyCalls

RunnerNext ==
  \/ ComputeTimeouts
  \/ CleanupDockerContainer
  \/ ClassifyRun

RunnerSpec == RunnerInit /\ [][RunnerNext]_vars

\* the evaluators of app.utils.submission_verdict, called on their own
VerdictInit ==
  /\ PipelineInit
  /\ test_cases = <<>>
  /\ evaluation \in CompareCalls \cup EvaluateCalls \cup BatchCalls

VerdictNext ==
  \/ CompareWithStrategy
  \/ EvaluateSubmission
  \/ BatchEvaluateSubmission

VerdictSpec == VerdictInit /\ [][VerdictNext]_vars

\* ------------------------------------------------------------------ claims
Exists(s) == s <= Len(submissions)

Judged(s) == Exists(s) /\ audit[s].writes > 0

\* d's step that commits the result of the for loop
PersistWrites(d) ==
  /\ worker[d].pc = "persist"
  /\ worker'[d].pc = "brpop"
  /\ submissions' # submissions

\* run_docker_judge has returned for the container d started last
RunReturned(d) ==
  worker[d].container_name # <<>> /\ worker[d].pc # "communicate"

\* C1: every submission Intake inserts as PENDING eventually holds a terminal
\* status, as long as some Dispatcher is running.
C1_PendingIsEventuallyJudged ==
  \A s \in SubmissionIds :
    (Exists(s) /\ submissions[s].status = "PENDING")
      ~> \/ Exists(s) /\ submissions[s].status # "PENDING"
         \/ \A d \in Dispatchers : worker[d].pc = "exited"

\* C2: when test case k is the first that does not pass, the persisted
\* test_cases_passed is k-1 and no test case after k is run.
C2_ShortCircuit ==
  [][\A d \in Dispatchers :
       PersistWrites(d) /\ worker[d].first_fail # 0
         => /\ submissions'[worker[d].submission_id].test_cases_passed
                 = worker[d].first_fail - 1
            /\ worker[d].i = worker[d].first_fail]_vars

\* C3: the persisted status is the status of the first outcome that is not a
\* pass, and ACCEPTED exactly when every test case passes.
C3_FirstFailureDecides ==
  [][\A d \in Dispatchers :
       PersistWrites(d)
         => submissions'[worker[d].submission_id].status
              = IF worker[d].first_fail = 0 THEN "ACCEPTED"
                ELSE worker[d].first_verdict]_vars

\* C4: a submission whose result was persisted is not PENDING and has
\* 0 <= test_cases_passed <= total_test_cases.
C4_JudgedRowInRange ==
  \A s \in SubmissionIds :
    Judged(s)
      => /\ submissions[s].status # "PENDING"
         /\ 0 <= submissions[s].test_cases_passed
         /\ submissions[s].test_cases_passed <= submissions[s].total_test_cases

C4_Witness ==
  \E s \in SubmissionIds :
    /\ Judged(s)
    /\ submissions[s].test_cases_passed > 0
    /\ Len(test_cases) > submissions[s].total_test_cases

\* C5: a test case whose program is still running when its limit expires,
\* stopped by the inner timeout or by the outer watchdog, makes the final
\* status TIME_LIMIT_EXCEEDED.
C5_ExpiredLimitIsTimeLimitExceeded ==
  \A d \in Dispatchers :
    worker[d].cause \in {"inner_timeout", "watchdog"}
      => worker[d].final_status = "TIME_LIMIT_EXCEEDED"

\* C6 as stated: once run_docker_judge has returned, its container does not
\* exist and its docker run process is not running.
C6_ContainerGoneAfterReturn ==
  \A d \in Dispatchers :
    RunReturned(d)
      => /\ worker[d].container_name \notin containers
         /\ worker[d].proc # "running"

\* C6 amended: once run_docker_judge has returned, its docker run process is
\* not running, and its container does not exist unless
\* cleanup_docker_container gave up after max_retries attempts.
C6_ContainerGoneUnlessCleanupGaveUp ==
  \A d \in Dispatchers :
    RunReturned(d)
      => /\ worker[d].proc # "running"
         /\ \/ worker[d].container_name \notin containers
            \/ worker[d].cleaned = "False"

C6_Witness ==
  \E d \in Dispatchers :
    /\ RunReturned(d)
    /\ worker[d].cause = "watchdog"
    /\ worker[d].cleaned = "True"
    /\ worker[d].container_name \notin containers

\* C7: a row changes only from PENDING to one of the four terminal statuses;
\* a row that holds a terminal status never changes again.
C7_StatusStateMachine ==
  [][\A s \in SubmissionIds :
       Exists(s) /\ submissions'[s] # submissions[s]
         => /\ submissions[s].status = "PENDING"
            /\ submissions'[s].status \in Terminal]_vars

C7_Witness ==
  \E s \in SubmissionIds, d \in Dispatchers :
    /\ Judged(s)
    /\ submissions[s].status = "WRONG_ANSWER"
    /\ worker[d].pc = "persist"

\* C8 as stated: update_submission_after_judge is executed exactly once for a
\* submission, also when the first attempt raises, and the row keeps PENDING
\* and 0 while test cases are run.
C8_UpdateExecutedOnce ==
  [][\A d \in Dispatchers :
       /\ worker[d].pc = "fallback" /\ worker'[d].pc # "fallback"
            => worker[d].update_calls = 0
       /\ worker[d].pc \in {"popen", "communicate"}
            => /\ submissions[worker[d].submission_id].status = "PENDING"
               /\ submissions[worker[d].submission_id].test_cases_passed = 0]_vars

\* C8 amended: at most one call of update_submission_after_judge commits for
\* a submission, made by the one Dispatcher that claimed it after the last
\* test case it ran; the call after the loop is made at most once, the
\* except branch makes one more call, and until a call commits the row keeps
\* PENDING and 0.
C8_SingleCommittedWrite ==
  /\ \A s \in SubmissionIds : audit[s].writes <= 1
  /\ \A d \in Dispatchers :
       /\ worker[d].update_calls <= 1
       /\ worker[d].pc \in {"load", "popen", "communicate", "persist", "fallback"}
            /\ Exists(worker[d].submission_id)
            => /\ audit[worker[d].submission_id].writes = 0
               /\ submissions[worker[d].submission_id].status = "PENDING"
               /\ submissions[worker[d].submission_id].test_cases_passed = 0
       /\ worker[d].update_calls = 1 => worker[d].pc = "fallback"

C8_Witness ==
  \E d \in Dispatchers :
    /\ worker[d].pc = "fallback"
    /\ worker[d].update_calls = 1
    /\ worker[d].passed_count > 0

\* C9: every id is popped by at most one Dispatcher, at most once, and no two
\* Dispatchers judge the same submission.
C9_ExclusiveClaim ==
  /\ \A s \in SubmissionIds : audit[s].claims <= 1
  /\ \A d1, d2 \in Dispatchers :
       d1 # d2 /\ worker[d1].submission_id # 0
         => worker[d1].submission_id # worker[d2].submission_id
  /\ \A k1, k2 \in 1..Len(queue) : k1 # k2 => queue[k1] # queue[k2]
  /\ \A k \in 1..Len(queue) : audit[queue[k]].claims = 0

C9_Witness ==
  \E d1, d2 \in Dispatchers :
    /\ worker[d1].pc = "communicate"
    /\ worker[d2].pc = "communicate"
    /\ worker[d1].submission_id = 1
    /\ worker[d2].submission_id = 2

\* C10: the container a Dispatcher is using for a test case is never removed
\* by another Dispatcher, so no run ends because its container was removed.
C10_ContainerInUseIsLeftAlone ==
  \A d \in Dispatchers :
    /\ worker[d].pc = "communicate" => worker[d].container_name \in containers
    /\ worker[d].cause # "removed"

\* d's step that returns from the except branch of judge_submission
FallbackReturns(d) ==
  worker[d].pc = "fallback" /\ worker'[d].pc = "brpop"

\* d's step that returns from judge_submission after the for loop was left
JudgeReturns(d) ==
  worker[d].pc \in {"persist", "fallback"} /\ worker'[d].pc = "brpop"

InQueue(s) == \E k \in 1..Len(queue) : queue[k] = s

\* C11: when an exception was raised in judge_submission while it loaded,
\* ran test cases or persisted, judge_submission returns with status
\* RUNTIME_ERROR and test_cases_passed 0 persisted for the submission.
C11_ExceptionPersistsRuntimeError ==
  [][\A d \in Dispatchers :
       FallbackReturns(d)
         => /\ submissions'[worker[d].submission_id].status = "RUNTIME_ERROR"
            /\ submissions'[worker[d].submission_id].test_cases_passed = 0]_vars

\* C12: once create_and_queue_submission has ended, no submission is left
\* PENDING without a queue entry and without a Dispatcher having claimed it.
C12_NoPendingRowWithoutQueueEntry ==
  \A s \in SubmissionIds :
    Exists(s) /\ submissions[s].status = "PENDING" /\ s \notin unpushed
      => InQueue(s) \/ audit[s].claims > 0

\* C13: every id in submissions_queue names a row that exists, was committed
\* before the push, is PENDING and is claimed by no Dispatcher; no id is in
\* the queue twice.
C13_QueueEntryInvariant ==
  /\ \A k \in 1..Len(queue) :
       /\ Exists(queue[k])
       /\ queue[k] \notin unpushed
       /\ submissions[queue[k]].status = "PENDING"
       /\ submissions[queue[k]].test_cases_passed = 0
       /\ \A d \in Dispatchers : worker[d].submission_id # queue[k]
  /\ \A j, k \in 1..Len(queue) : queue[j] = queue[k] => j = k

C13_Witness ==
  /\ Len(queue) = 1
  /\ \E d \in Dispatchers :
       /\ worker[d].pc = "persist"
       /\ worker[d].submission_id # queue[1]

\* C14: when every test case that was run passed (normal exit within the
\* limit, output equal to the expected output up to trailing whitespace), the
\* persisted status is ACCEPTED and test_cases_passed = total_test_cases.
C14_AllPassedIsAccepted ==
  [][\A d \in Dispatchers :
       /\ JudgeReturns(d)
       /\ Len(worker[d].test_cases) > 0
       /\ worker[d].passed_count = Len(worker[d].test_cases)
       => /\ submissions'[worker[d].submission_id].status = "ACCEPTED"
          /\ submissions'[worker[d].submission_id].test_cases_passed
               = submissions'[worker[d].submission_id].total_test_cases]_vars

\* C15: a test case whose program exits non-zero by itself makes the final
\* status RUNTIME_ERROR, whatever its stderr holds.
C15_NonZeroExitIsRuntimeError ==
  \A d \in Dispatchers :
    worker[d].cause = "fault" => worker[d].final_status = "RUNTIME_ERROR"

\* C16: worker_loop goes from the ping to docker info to the sweep to the
\* queue, in this order and only forward; a failed ping or runtime check
\* ends it for good; it holds no submission before it reached the queue.
C16_StartupOrdering ==
  [][\A d \in Dispatchers :
       /\ worker[d].pc = "ping"
            => worker'[d].pc \in {"ping", "docker_info", "exited"}
       /\ worker[d].pc = "docker_info"
            => worker'[d].pc \in {"docker_info", "sweep", "exited"}
       /\ worker[d].pc = "sweep" => worker'[d].pc \in {"sweep", "brpop"}
       /\ worker[d].pc = "exited" => worker'[d] = worker[d]
       /\ worker'[d].pc \in {"ping", "docker_info", "sweep", "exited"}
            => worker'[d].submission_id = 0
       /\ worker'[d].submission_id # worker[d].submission_id
            /\ worker'[d].submission_id # 0
            => worker[d].pc = "brpop"]_vars

C16_Witness ==
  \E d1, d2 \in Dispatchers :
    /\ worker[d1].pc = "exited"
    /\ worker[d2].pc = "load"
    /\ worker[d2].submission_id # 0

\* C17: Intake inserts no row for a problem that does not exist or has no
\* test case; a row it inserts is PENDING with test_cases_passed 0 and
\* total_test_cases the current number of test cases, nothing is pushed
\* before the row is committed, and the id of a row is pushed at most once.
C17_IntakePreconditions ==
  [][/\ Len(submissions') >= Len(submissions)
     /\ Len(submissions') > Len(submissions)
          => /\ Len(submissions') = Len(submissions) + 1
             /\ Len(test_cases) >= 1
             /\ submissions'[Len(submissions')]
                  = [problem_id |-> ExistingProblem, status |-> "PENDING",
                     test_cases_passed |-> 0,
                     total_test_cases |-> Len(test_cases)]
             /\ SubSeq(submissions', 1, Len(submissions)) = submissions
             /\ queue' = queue
             /\ unpushed' = unpushed \cup {Len(submissions')}
     /\ Len(queue') > Len(queue)
          => \E id \in unpushed :
               /\ queue' = <<id>> \o queue
               /\ unpushed' = unpushed \ {id}
               /\ Exists(id)
               /\ ~InQueue(id)
               /\ audit[id].claims = 0
               /\ submissions' = submissions]_vars

C17_Witness ==
  /\ Len(submissions) = 2
  /\ submissions[2].total_test_cases = 2
  /\ submissions[1].total_test_cases = 1
  /\ queue = <<2, 1>>

\* ------------------------------------- what the comparison strategies mean
IsWhitespace(s) == \A k \in 1..Len(s) : s[k] \in Whitespace

\* s without its trailing whitespace
WithoutTrailing(s) ==
  SubSeq(s, 1, CHOOSE n \in 0..Len(s) :
                 /\ IsWhitespace(SubSeq(s, n + 1, Len(s)))
                 /\ n = 0 \/ s[n] \notin Whitespace)

\* s without its leading whitespace
WithoutLeading(s) ==
  SubSeq(s, CHOOSE n \in 1..(Len(s) + 1) :
              /\ IsWhitespace(SubSeq(s, 1, n - 1))
              /\ n = Len(s) + 1 \/ s[n] \notin Whitespace,
         Len(s))

\* the j-th smallest element of a set of numbers
Nth(S, j) == CHOOSE x \in S : Cardinality({y \in S : y < x}) = j - 1

\* the maximal runs of characters of s that are not whitespace, in order
Tokens(s) ==
  LET starts == {k \in 1..Len(s) :
                   s[k] \notin Whitespace
                     /\ (k = 1 \/ s[k - 1] \in Whitespace)}
      ends == {k \in 1..Len(s) :
                 s[k] \notin Whitespace
                   /\ (k = Len(s) \/ s[k + 1] \in Whitespace)}
  IN [j \in 1..Cardinality(starts) |->
        SubSeq(s, Nth(starts, j), Nth(ends, j))]

\* the lines of s: what lies between two newlines, or a newline and an end
Lines(s) ==
  LET cuts == {0, Len(s) + 1} \cup {k \in 1..Len(s) : s[k] = "\n"}
  IN [j \in 1..(Cardinality(cuts) - 1) |->
        SubSeq(s, Nth(cuts, j) + 1, Nth(cuts, j + 1) - 1)]

\* the outputs match under the strategy, as the strategies are defined
Matches(a, e, strategy) ==
  CASE strategy = "exact" -> a = e
    [] strategy = "trim" -> WithoutTrailing(a) = WithoutTrailing(e)
    [] strategy = "token" -> Tokens(a) = Tokens(e)
    [] strategy = "normalized" ->
         LET la == Lines(WithoutLeading(WithoutTrailing(a)))
             le == Lines(WithoutLeading(WithoutTrailing(e)))
         IN /\ Len(la) = Len(le)
            /\ \A j \in 1..Len(la) : Tokens(la[j]) = Tokens(le[j])

HasReturned(op) == evaluation.op = op /\ evaluation.returned

C19_EvaluatePriority ==
  HasReturned("evaluate_submission")
    => LET args == evaluation.args
           verdict == evaluation.result.verdict
           matches == Matches(args.actual_output, args.expected_output,
                              args.strategy)
       IN /\ args.runtime_error => verdict = "RUNTIME_ERROR"
          /\ ~args.runtime_error /\ args.timeout_occurred
               => verdict = "TIME_LIMIT_EXCEEDED"
          /\ ~args.runtime_error /\ ~args.timeout_occurred /\ matches
               => verdict = "ACCEPTED"
          /\ ~args.runtime_error /\ ~args.timeout_occurred /\ ~matches
               => verdict = "WRONG_ANSWER"

C19_Witness ==
  /\ HasReturned("evaluate_submission")
  /\ evaluation.args.runtime_error
  /\ evaluation.args.timeout_occurred
  /\ evaluation.args.actual_output = evaluation.args.expected_output
  /\ evaluation.result.verdict = "RUNTIME_ERROR"

\* the verdict of case i of a batch call, by the priority of C19
CaseVerdict(args, i) ==
  LET timeout == args.timeouts.given /\ args.timeouts.list[i]
      error == args.runtime_errors.given /\ args.runtime_errors.list[i]
  IN IF error THEN "RUNTIME_ERROR"
     ELSE IF timeout THEN "TIME_LIMIT_EXCEEDED"
     ELSE IF Matches(args.actual_outputs[i], args.expected_outputs[i],
                     args.strategy)
     THEN "ACCEPTED"
     ELSE "WRONG_ANSWER"

\* C20: batch_evaluate_submission returns, for n cases, n detail records in
\* order, passed = the number of ACCEPTED cases, total = n, and as verdict
\* the verdict of the first case that is not ACCEPTED, ACCEPTED if none.
C20_BatchTallies ==
  HasReturned("batch_evaluate_submission")
    => LET args == evaluation.args
           r == evaluation.result
           n == Len(args.actual_outputs)
           failed == {i \in 1..n : CaseVerdict(args, i) # "ACCEPTED"}
       IN /\ r.raised = None
          /\ r.total = n
          /\ Len(r.details) = n
          /\ \A i \in 1..n :
               /\ r.details[i].test_case = i
               /\ r.details[i].verdict = CaseVerdict(args, i)
          /\ r.passed = n - Cardinality(failed)
          /\ 0 <= r.passed /\ r.passed <= r.total
          /\ r.verdict = IF failed = {} THEN "ACCEPTED"
                         ELSE CaseVerdict(args, Nth(failed, 1))

\* C21: judge_submission runs the test cases in their stored order, the
\* same for every judging of the problem.
C21_StoredOrder ==
  [][\A d \in Dispatchers :
       worker[d].pc = "load" /\ worker'[d].pc = "popen"
         => worker'[d].test_cases = test_cases]_vars

\* C22: cleanup_orphaned_containers always returns to worker_loop, only
\* removes containers, changes nothing when there is no container, and leaves
\* no container when the listing and every removal succeeded.
C22_SweepIdempotent ==
  [][\A d \in Dispatchers :
       worker[d].pc = "sweep" /\ worker'[d].pc # "sweep"
         => /\ worker'[d].pc = "brpop"
            /\ containers' \subseteq containers
            /\ containers = {}
                 => /\ containers' = {}
                    /\ worker' = [worker EXCEPT ![d].pc = "brpop"]
                    /\ UNCHANGED <<now, test_cases, edits, submissions,
                                   unpushed, queue, audit>>
            /\ Swept(containers, TRUE, {}) = {}]_vars

C22_Witness ==
  \E d \in Dispatchers :
    /\ RunReturned(d)
    /\ worker[d].cleaned = "False"
    /\ worker[d].container_name \notin containers

\* C23: ids enter submissions_queue at its head and leave it at its tail, so
\* the id a Dispatcher claims is the one that was enqueued first; a row is
\* written only for the id its Dispatcher holds, which is queued no more.
C23_FifoQueue ==
  [][/\ Len(queue') > Len(queue)
          => \E id \in unpushed : queue' = <<id>> \o queue
     /\ Len(queue') < Len(queue)
          => /\ queue = queue' \o <<queue[Len(queue)]>>
             /\ \E d \in Dispatchers :
                  /\ worker[d].pc = "brpop"
                  /\ worker'[d].submission_id = queue[Len(queue)]
     /\ \A s \in SubmissionIds :
          Exists(s) /\ submissions'[s] # submissions[s]
            => /\ ~InQueue(s)
               /\ \E d \in Dispatchers : worker[d].submission_id = s]_vars

C23_Witness ==
  \E d \in Dispatchers :
    /\ queue = <<1>>
    /\ worker[d].submission_id = 2
    /\ worker[d].pc = "persist"

\* C26: the result of a run whose communicate() raised does not depend on
\* what cleanup_docker_container returned: the status is TIME_LIMIT_EXCEEDED
\* after the watchdog and RUNTIME_ERROR after another exception, the passed
\* count is untouched, and judge_submission goes on to persist and return.
C26_CleanupFailureNotPropagated ==
  [][\A d \in Dispatchers :
       /\ worker[d].pc = "communicate"
            /\ worker'[d].cause \in {"watchdog", "exception"}
            => /\ worker'[d].final_status
                    = IF worker'[d].cause = "watchdog"
                      THEN "TIME_LIMIT_EXCEEDED" ELSE "RUNTIME_ERROR"
               /\ worker'[d].passed_count = worker[d].passed_count
               /\ worker'[d].pc = "persist"
       /\ worker[d].pc \in {"persist", "fallback"} /\ worker'[d] # worker[d]
            => worker'[d].pc \in {"fallback", "brpop"}]_vars

C26_Witness ==
  \E d \in Dispatchers :
    /\ worker[d].pc = "load"
    /\ \E name \in containers : name[2] = Pid(d)

C24_InnerBelowOuter ==
  HasReturned("timeouts") => evaluation.result.inner < evaluation.result.outer

\* C25: cleanup_docker_container returns after at most max_retries attempts;
\* it returns True at the first attempt whose remove succeeds or finds the
\* container gone, and False only when max_retries attempts failed.
C25_CleanupBounded ==
  HasReturned("cleanup_docker_container")
    => LET o == evaluation.args.outcomes
           r == evaluation.result
           good == {k \in 1..max_retries : o[k] \in {"removed", "gone"}}
       IN /\ r.attempts \in 1..max_retries
          /\ r.returned <=> good # {}
          /\ r.returned => r.attempts = Nth(good, 1)
          /\ ~r.returned => r.attempts = max_retries
          /\ r.slept = CLEANUP_RETRY_DELAY
                         * Cardinality({k \in 1..r.attempts : k \notin good})

C25_Witness ==
  /\ HasReturned("cleanup_docker_container")
  /\ evaluation.args.outcomes = <<"raised", "gone", "failed">>
  /\ evaluation.result.returned
  /\ evaluation.result.attempts = 2

\* C28: the branch judge_submission takes for a run is the verdict that
\* evaluate_submission returns for the same run with the trim strategy.
C28_ClassificationAgrees ==
  HasReturned("classify")
    => LET args == evaluation.args
           verdict ==
             evaluate_submission(args.stdout, args.expected_output, "trim",
                                 args.ends = "watchdog",
                                 args.ends = "nonzero", NoneStr).verdict
       IN evaluation.result = IF verdict = "ACCEPTED" THEN "PASS" ELSE verdict

\* C29: for every pair of strings, what exact accepts trim accepts, what
\* trim accepts normalized accepts, what normalized accepts token accepts;
\* every strategy accepts a string against itself and is symmetric.
C29_StrictnessOrder ==
  HasReturned("compare_with_strategy")
    => LET a == evaluation.args.actual_output
           b == evaluation.args.expected_output
           s == evaluation.args.strategy
       IN /\ compare_with_strategy(a, b, "exact")
               => compare_with_strategy(a, b, "trim")
          /\ compare_with_strategy(a, b, "trim")
               => compare_with_strategy(a, b, "normalized")
          /\ compare_with_strategy(a, b, "normalized")
               => compare_with_strategy(a, b, "token")
          /\ compare_with_strategy(a, a, s)
          /\ evaluation.result <=> compare_with_strategy(b, a, s)

C29_Witness ==
  /\ HasReturned("compare_with_strategy")
  /\ evaluation.args.actual_output = <<"4", "\n", "2">>
  /\ evaluation.args.expected_output = <<"4", " ", "2">>
  /\ evaluation.args.strategy = "token"
  /\ evaluation.result
  /\ ~compare_with_strategy(<<"4", "\n", "2">>, <<"4", " ", "2">>, "normalized")

TypeOK ==
  /\ now \in 0..MaxTime
  /\ Len(test_cases) <= MaxTestCases
  /\ Len(submissions) <= MaxSubmissions
  /\ \A d \in Dispatchers : worker[d].i <= MaxTestCases

====
